---------------------------- MODULE Spec2Model ----------------------------
(***************************************************************************)
(* Model of the simulation core of "Evita y Dispara" (package juego):      *)
(* Vector2D, Figura, Proyectil, Jugador, Enemigo and ControlJuego.         *)
(*                                                                         *)
(* Units.  Time is counted in tenths of a second (dt = 5 is 0.5 s), so the *)
(* program's 0.3 s, 0.5 s, 1.0 s, 2.0 s and 5.0 s are 3, 5, 10, 20 and 50. *)
(* Positions are whole pixels.  A normalised vector is kept in thousandths *)
(* (Unidad), and every float division is rounded to the nearest integer.   *)
(* Colours, fonts, the clock and drawing are not modelled.                 *)
(***************************************************************************)
EXTENDS Integers, Sequences, FiniteSets, TLC

(***************************************************************************)
(* Bounds of the exploration.                                              *)
(***************************************************************************)
MaxTiempo == 75
MaxTiempoLargo == 110
MaxRecarga == 20
MaxProyectiles == 1
MaxDesdeDano == 10
MaxTiempoFino == 26
MaxTiempoEventos == 20
MaxEventos == 2
MaxTiempoErrores == 15
MaxEdad == 25
MaxLista == 3

(***************************************************************************)
(* Program constants.                                                      *)
(***************************************************************************)
Ancho == 800
Alto == 600
PuntosIniciales == 10
IntervaloEnemigo == 50
CooldownDano == 10
CooldownDisparo == 3
RadioJugador == 20
RadioEnemigo == 20
RadioProyectil == 5
VidaMaxima == 3
TiempoInvulnerable == 5
VelocidadEnemigo == 100
VelocidadProyectil == 300
TiempoVida == 20
MargenSpawn == 50
Suavizado == 10

\* Fixed-point scales of the model: a unit vector is kept in 1/Unidad, a
\* magnitude in 1/Escala pixel.
Unidad == 10 * 10 * 10
Escala == 2 * 5

(***************************************************************************)
(* Inputs: the frame times, the mouse positions, the points fired at and   *)
(* the outcomes of random.randint / random.choice that are explored.       *)
(***************************************************************************)
DTs == {5, 10}
DTsLargos == {10}
JDTs == {5}
DTsEnemigo == {2, 3, 5}
DTsFinos == {2, 10}
DTsJugador == {2, 5}
DTsCualesquiera == {-5, 0, 5}
DTsProyectil == {5, 10}
BlancosProyectil == {[x |-> 0, y |-> 300], [x |-> 400, y |-> 300],
                     [x |-> 200, y |-> 0]}
PosicionesEnemigo == {[x |-> 200, y |-> 300], [x |-> 240, y |-> 300],
                      [x |-> 241, y |-> 300], [x |-> 224, y |-> 332],
                      [x |-> 225, y |-> 332], [x |-> 230, y |-> 340]}
RadiosEnemigo == {20, 30}
PosicionesProyectil == {[x |-> 209, y |-> 312], [x |-> 208, y |-> 312]}
BlancosLejanos == {[x |-> 400, y |-> 150]}
RatonesJugador == {[x |-> 200, y |-> 300], [x |-> 300, y |-> 300]}
Ratones == {[x |-> 200, y |-> 300]}
RatonesEsquina == {[x |-> 799, y |-> 0]}
Blancos == {[x |-> 400, y |-> 150], [x |-> 200, y |-> 300]}
Spawns == {[pos |-> [x |-> 250, y |-> 300], radio |-> 30],
           [pos |-> [x |-> 750, y |-> 550], radio |-> 10]}

\* of those, the outcomes respawnear_enemigo can draw: a position inside the
\* margin and one of the five radii
SpawnsPosibles ==
    {sp \in Spawns : /\ sp.pos.x \in MargenSpawn..(Ancho - MargenSpawn)
                     /\ sp.pos.y \in MargenSpawn..(Alto - MargenSpawn)
                     /\ sp.radio \in {10, 15, 20, 25, 30}}

----------------------------------------------------------------------------
(***************************************************************************)
(* Arithmetic helpers.                                                     *)
(***************************************************************************)
Max(a, b) == IF a >= b THEN a ELSE b
Min(a, b) == IF a <= b THEN a ELSE b

\* a / b for b > 0, rounded to the nearest integer, symmetric around 0.
DivR(a, b) == IF a >= 0 THEN (2 * a + b) \div (2 * b)
                        ELSE -((2 * (-a) + b) \div (2 * b))

RECURSIVE RaizEntre(_, _, _)
RaizEntre(n, lo, hi) ==
    IF lo >= hi THEN lo
    ELSE LET mid == (lo + hi + 1) \div 2
         IN  IF mid * mid <= n THEN RaizEntre(n, mid, hi)
                               ELSE RaizEntre(n, lo, mid - 1)

\* floor(sqrt(n)) for 0 <= n < 2^31
Raiz(n) == RaizEntre(n, 0, 46340)

(***************************************************************************)
(* Vector2D                                                                *)
(***************************************************************************)
Vec(x, y) == [x |-> x, y |-> y]
Suma(a, b) == Vec(a.x + b.x, a.y + b.y)
Resta(a, b) == Vec(a.x - b.x, a.y - b.y)
Cuadrado(v) == v.x * v.x + v.y * v.y

\* Vector2D.magnitud, in units of 1/Escala pixel
Magnitud(v) == Raiz(Escala * Escala * Cuadrado(v))

\* Vector2D.normalizar: the unit vector in thousandths, zero for the zero vector
Normalizar(v) ==
    LET mag == Magnitud(v)
    IN  IF mag > 0
        THEN Vec(DivR(v.x * Unidad * Escala, mag), DivR(v.y * Unidad * Escala, mag))
        ELSE Vec(0, 0)

\* a normalised vector (thousandths) times a length in pixels
Escalar(n, largo) == Vec(DivR(n.x * largo, Unidad), DivR(n.y * largo, Unidad))

(***************************************************************************)
(* Figura                                                                  *)
(***************************************************************************)
\* mutant: the test is "<" instead of "<="
ColisionEstricta(a, b) ==
    IF ~(a.activo /\ b.activo) THEN FALSE
    ELSE Cuadrado(Resta(a.posicion, b.posicion))
             < (a.radio + b.radio) * (a.radio + b.radio)

\* Figura.colision: both active and distance <= sum of the radii
Colision(a, b) ==
    IF ~(a.activo /\ b.activo) THEN FALSE
    ELSE Cuadrado(Resta(a.posicion, b.posicion))
             <= (a.radio + b.radio) * (a.radio + b.radio)

\* mutant: the radius is left out of the limits
MantenerCentroEnPantalla(f) ==
    LET x1 == Max(0, f.posicion.x)
        x2 == Min(Ancho, x1)
        y1 == Max(0, f.posicion.y)
        y2 == Min(Alto, y1)
    IN  [f EXCEPT !.posicion = Vec(x2, y2)]

\* Figura.mantener_en_pantalla
MantenerEnPantalla(f) ==
    LET x1 == Max(f.radio, f.posicion.x)
        x2 == Min(Ancho - f.radio, x1)
        y1 == Max(f.radio, f.posicion.y)
        y2 == Min(Alto - f.radio, y1)
    IN  [f EXCEPT !.posicion = Vec(x2, y2)]

(***************************************************************************)
(* Enemigo: [posicion, radio, activo, vida, tiempo_invulnerable, objetivo] *)
(* objetivo is TRUE when the enemy's target is the session's player.       *)
(* The field desde_dano is an observation, not a field of the program: the *)
(* sum of the dt of the updates the enemy has run since its last           *)
(* successful recibir_dano (counted up to MaxDesdeDano), -1 before the     *)
(* first one.                                                              *)
(***************************************************************************)
\* Enemigo.__init__
NuevoEnemigo(pos, radio) ==
    [posicion |-> pos, radio |-> radio, activo |-> TRUE, vida |-> VidaMaxima,
     tiempo_invulnerable |-> 0, objetivo |-> FALSE, desde_dano |-> -1]

\* Enemigo.establecer_objetivo
EstablecerObjetivo(e) == [e EXCEPT !.objetivo = TRUE]

\* mutant: the invulnerability never decays
InvulnerabilidadSinDecaer(e, dt) == e

\* Enemigo._actualizar_invulnerabilidad (the colour is not modelled)
ActualizarInvulnerabilidad(e, dt) ==
    IF e.tiempo_invulnerable > 0
    THEN [e EXCEPT !.tiempo_invulnerable = @ - dt]
    ELSE e

\* Enemigo._perseguir_objetivo: velocidad * dt pixels along the unit vector
PerseguirObjetivo(e, dt, jug) ==
    IF e.objetivo /\ jug.activo
    THEN LET direccion == Resta(jug.posicion, e.posicion)
         IN  IF Magnitud(direccion) > 0
             THEN [e EXCEPT !.posicion =
                     Suma(@, Escalar(Normalizar(direccion),
                                     (VelocidadEnemigo * dt) \div 10))]
             ELSE e
    ELSE e

\* the observation desde_dano after an update of dt
ContarDesdeDano(e, dt) ==
    [e EXCEPT !.desde_dano = IF @ < 0 THEN @ ELSE Min(@ + dt, MaxDesdeDano)]

\* mutant: the early return of lines 156-158 for an inactive enemy is missing
EnemigoActualizarSinRetorno(e, dt, jug) ==
    ContarDesdeDano(
        MantenerEnPantalla(
            PerseguirObjetivo(ActualizarInvulnerabilidad(e, dt), dt, jug)),
        dt)

\* Enemigo.actualizar for dt > 0
EnemigoActualizar(e, dt, jug) ==
    IF ~e.activo THEN e
    ELSE ContarDesdeDano(
             MantenerEnPantalla(
                 PerseguirObjetivo(ActualizarInvulnerabilidad(e, dt), dt, jug)),
             dt)

\* mutant: the defeated enemy is not deactivated
RecibirDanoSinDesactivar(e) ==
    IF e.tiempo_invulnerable <= 0
    THEN [e |-> [e EXCEPT !.vida = IF @ - 1 <= 0 THEN 0 ELSE @ - 1,
                          !.tiempo_invulnerable = TiempoInvulnerable,
                          !.desde_dano = 0],
          ok |-> TRUE]
    ELSE [e |-> e, ok |-> FALSE]

\* mutant: the invulnerability is not tested
RecibirDanoSinInvulnerabilidad(e) ==
    LET v == e.vida - 1
    IN  [e |-> [e EXCEPT !.vida = IF v <= 0 THEN 0 ELSE v,
                         !.tiempo_invulnerable = TiempoInvulnerable,
                         !.activo = IF v <= 0 THEN FALSE ELSE @,
                         !.desde_dano = 0],
         ok |-> TRUE]

\* mutant: the test is "< 0" instead of "<= 0"
RecibirDanoEstricto(e) ==
    IF e.tiempo_invulnerable < 0
    THEN LET v == e.vida - 1
         IN  [e |-> [e EXCEPT !.vida = IF v <= 0 THEN 0 ELSE v,
                              !.tiempo_invulnerable = TiempoInvulnerable,
                              !.activo = IF v <= 0 THEN FALSE ELSE @,
                              !.desde_dano = 0],
              ok |-> TRUE]
    ELSE [e |-> e, ok |-> FALSE]

\* mutant: the enemy is deactivated by the first damage it takes
RecibirDanoDesactivaSiempre(e) ==
    IF e.tiempo_invulnerable <= 0
    THEN LET v == e.vida - 1
         IN  [e |-> [e EXCEPT !.vida = IF v <= 0 THEN 0 ELSE v,
                              !.tiempo_invulnerable = TiempoInvulnerable,
                              !.activo = FALSE,
                              !.desde_dano = 0],
              ok |-> TRUE]
    ELSE [e |-> e, ok |-> FALSE]

\* Enemigo.recibir_dano: the enemy afterwards and the value returned
RecibirDano(e) ==
    IF e.tiempo_invulnerable <= 0
    THEN LET v == e.vida - 1
         IN  [e |-> [e EXCEPT !.vida = IF v <= 0 THEN 0 ELSE v,
                              !.tiempo_invulnerable = TiempoInvulnerable,
                              !.activo = IF v <= 0 THEN FALSE ELSE @,
                              !.desde_dano = 0],
              ok |-> TRUE]
    ELSE [e |-> e, ok |-> FALSE]

(***************************************************************************)
(* Proyectil: [posicion, radio, activo, direccion, tiempo_vida]            *)
(* The field edad is an observation, not a field of the program: the sum   *)
(* of the dt of the updates the projectile has run while active (counted   *)
(* up to MaxEdad).                                                         *)
(***************************************************************************)
\* Proyectil.__init__
NuevoProyectil(pos, direccion) ==
    [posicion |-> pos, radio |-> RadioProyectil, activo |-> TRUE,
     direccion |-> Normalizar(direccion), tiempo_vida |-> TiempoVida,
     edad |-> 0]

\* mutant: the lifetime test is "< 0" instead of "<= 0"
VerificarDesactivacionEstricta(p) ==
    IF ~p.activo THEN p
    ELSE LET fuera_de_pantalla ==
                 \/ p.posicion.x < -p.radio
                 \/ p.posicion.x > Ancho + p.radio
                 \/ p.posicion.y < -p.radio
                 \/ p.posicion.y > Alto + p.radio
             tiempo_agotado == p.tiempo_vida < 0
         IN  IF fuera_de_pantalla \/ tiempo_agotado
             THEN [p EXCEPT !.activo = FALSE]
             ELSE p

\* Proyectil._verificar_desactivacion
VerificarDesactivacion(p) ==
    IF ~p.activo THEN p
    ELSE LET fuera_de_pantalla ==
                 \/ p.posicion.x < -p.radio
                 \/ p.posicion.x > Ancho + p.radio
                 \/ p.posicion.y < -p.radio
                 \/ p.posicion.y > Alto + p.radio
             tiempo_agotado == p.tiempo_vida <= 0
         IN  IF fuera_de_pantalla \/ tiempo_agotado
             THEN [p EXCEPT !.activo = FALSE]
             ELSE p

\* Proyectil.actualizar for dt > 0
ProyectilActualizar(p, dt) ==
    IF ~p.activo THEN p
    ELSE VerificarDesactivacion(
             [p EXCEPT !.posicion =
                          Suma(@, Escalar(p.direccion,
                                          (VelocidadProyectil * dt) \div 10)),
                       !.tiempo_vida = @ - dt,
                       !.edad = Min(@ + dt, MaxEdad)])

(***************************************************************************)
(* Jugador: [posicion, radio, activo, ultimo_disparo, proyectiles]         *)
(***************************************************************************)
\* mutant: the player is created with its cooldown already served
NuevoJugadorRecargado(pos) ==
    [posicion |-> pos, radio |-> RadioJugador, activo |-> TRUE,
     ultimo_disparo |-> CooldownDisparo, proyectiles |-> << >>]

\* Jugador.__init__
NuevoJugador(pos) ==
    [posicion |-> pos, radio |-> RadioJugador, activo |-> TRUE,
     ultimo_disparo |-> 0, proyectiles |-> << >>]

\* Jugador._mover_hacia_mouse: posicion + (mouse - posicion) * 0.1
MoverHaciaMouse(j, raton) ==
    LET diferencia == Resta(raton, j.posicion)
    IN  [j EXCEPT !.posicion =
            Suma(@, Vec(DivR(diferencia.x, Suavizado), DivR(diferencia.y, Suavizado)))]

\* mutant: the inactive projectiles are not removed
ActualizarSinRetirar(ps, dt) ==
    [i \in 1..Len(ps) |-> ProyectilActualizar(ps[i], dt)]

\* Jugador._actualizar_proyectiles: update each one, drop the inactive ones
ActualizarProyectiles(ps, dt) ==
    LET movidos == [i \in 1..Len(ps) |-> ProyectilActualizar(ps[i], dt)]
        Vivo(p) == p.activo
    IN  SelectSeq(movidos, Vivo)

\* Jugador.actualizar for dt > 0
JugadorActualizarFn(j, dt, raton) ==
    IF ~j.activo THEN j
    ELSE LET j1 == MantenerEnPantalla(MoverHaciaMouse(j, raton))
         IN  [j1 EXCEPT !.ultimo_disparo = @ + dt,
                        !.proyectiles = ActualizarProyectiles(@, dt)]

\* mutant: "self.ultimo_disparo = 0.0" is missing
DispararSinReinicio(j, objetivo_pos) ==
    IF j.ultimo_disparo < CooldownDisparo
    THEN [j |-> j, ok |-> FALSE]
    ELSE [j |-> [j EXCEPT !.proyectiles =
                              Append(@, NuevoProyectil(j.posicion,
                                            Resta(objetivo_pos, j.posicion)))],
          ok |-> TRUE]

\* mutant: the cooldown is not tested
DispararSinCooldown(j, objetivo_pos) ==
    [j |-> [j EXCEPT !.proyectiles =
                         Append(@, NuevoProyectil(j.posicion,
                                       Resta(objetivo_pos, j.posicion))),
                     !.ultimo_disparo = 0],
     ok |-> TRUE]

\* Jugador.disparar: the player afterwards and the value returned
DispararFn(j, objetivo_pos) ==
    IF j.ultimo_disparo < CooldownDisparo
    THEN [j |-> j, ok |-> FALSE]
    ELSE [j |-> [j EXCEPT !.proyectiles =
                              Append(@, NuevoProyectil(j.posicion,
                                            Resta(objetivo_pos, j.posicion))),
                          !.ultimo_disparo = 0],
          ok |-> TRUE]

----------------------------------------------------------------------------
(***************************************************************************)
(* ControlJuego.  The enemies are objects shared between the list          *)
(* self.enemigos and the reference self.enemigo, so they live in a heap    *)
(* (ents) and both hold identifiers.  The most recently created enemy has  *)
(* the largest identifier.                                                 *)
(*                                                                         *)
(* Three variables are observations of the run, not fields of the program: *)
(* reloj sums the dt given to ControlJuego.actualizar, contacto_en is the  *)
(* value of reloj at the last contact deduction (-1 before the first), and *)
(* ult records what the last call did.                                     *)
(***************************************************************************)
VARIABLES puntos, jugando, tiempo_desde_ultimo_dano, tiempo_enemigo,
          enemigos, enemigo, ents, jugador, reloj, contacto_en, ult

vars == <<puntos, jugando, tiempo_desde_ultimo_dano, tiempo_enemigo,
          enemigos, enemigo, ents, jugador, reloj, contacto_en, ult>>

\* the fields of the session, without the observations
sesion == <<puntos, jugando, tiempo_desde_ultimo_dano, tiempo_enemigo,
            enemigos, enemigo, ents, jugador>>

Rango(s) == {s[i] : i \in 1..Len(s)}

MaxDe(S) == CHOOSE n \in S : \A k \in S : k <= n

NuevoId(e) == IF DOMAIN e = {} THEN 1 ELSE MaxDe(DOMAIN e) + 1

\* what a call leaves in ult: the operation and its dt, whether the session
\* was running when it was called, the enemies whose recibir_dano succeeded,
\* the number of contact deductions, the enemies created, the enemies taken
\* out of the list, and the value returned; tiros, filled by a frame, names
\* for each entry of heridos the projectile (its index) that did the damage,
\* and rechazos the projectiles whose collision found recibir_dano false;
\* eventos, filled by manejar_eventos, is the queue of events it processed,
\* and disparos the number of disparar calls that returned True in the calls
\* of manejar_eventos made since the last call of another operation; error
\* names the exception the call raised, "" when it returned; indice is the
\* place in the player's list of the projectile a call was made on
Informe(op, dt, corria, heridos, deducciones, nacidos, purgados, resultado) ==
    [op |-> op, dt |-> dt, corria |-> corria, heridos |-> heridos,
     deducciones |-> deducciones, nacidos |-> nacidos, purgados |-> purgados,
     resultado |-> resultado, tiros |-> << >>, rechazos |-> << >>,
     eventos |-> << >>, disparos |-> 0, error |-> "", indice |-> 0]

(***************************************************************************)
(* The state threaded through one call of ControlJuego.actualizar:         *)
(* m = [puntos, jugando, dano, tiempo_enemigo, lista, primario, ents,      *)
(*      proys, heridos, deducciones, nacidos, purgados, tiros, rechazos]   *)
(* where dano is tiempo_desde_ultimo_dano, lista is self.enemigos,         *)
(* primario is self.enemigo and proys is self.jugador.proyectiles.         *)
(***************************************************************************)
Mundo ==
    [puntos |-> puntos, jugando |-> jugando, dano |-> tiempo_desde_ultimo_dano,
     tiempo_enemigo |-> tiempo_enemigo, lista |-> enemigos, primario |-> enemigo,
     ents |-> ents, proys |-> jugador.proyectiles, heridos |-> << >>,
     deducciones |-> 0, nacidos |-> << >>, purgados |-> {}, tiros |-> << >>,
     rechazos |-> << >>]

\* line 154
AvanzarCooldown(m, dt) == [m EXCEPT !.dano = @ + dt]

\* lines 157-159: update every active enemy of the list
ActualizarEnemigos(m, dt, jug) ==
    [m EXCEPT !.ents = [id \in DOMAIN m.ents |->
                          IF id \in Rango(m.lista) /\ m.ents[id].activo
                          THEN EnemigoActualizar(m.ents[id], dt, jug)
                          ELSE m.ents[id]]]

\* mutant: the points are given without looking at what recibir_dano returned
GolpearSinComprobar(m, id) ==
    LET r == RecibirDano(m.ents[id])
    IN  [m EXCEPT !.ents[id] = r.e,
                  !.puntos = @ + 2,
                  !.heridos = IF r.ok THEN Append(@, id) ELSE @]

\* one call of enemigo.recibir_dano() with its "self.puntos += 2"
Golpear(m, id) ==
    LET r == RecibirDano(m.ents[id])
    IN  [m EXCEPT !.ents[id] = r.e,
                  !.puntos = IF r.ok THEN @ + 2 ELSE @,
                  !.heridos = IF r.ok THEN Append(@, id) ELSE @]

\* Golpear for the collision of the i-th projectile, noting the projectile
\* in tiros when the damage was taken and in rechazos when it was not
GolpearCon(m, i, id) ==
    LET m1 == Golpear(m, id)
    IN  IF Len(m1.heridos) > Len(m.heridos)
        THEN [m1 EXCEPT !.tiros = Append(@, i)]
        ELSE [m1 EXCEPT !.rechazos = Append(@, i)]

\* mutant: the helper leaves the projectile active after the collision
RECURSIVE VerificarSinDesactivar(_, _)
VerificarSinDesactivar(m, i) ==
    IF i > Len(m.proys) THEN m
    ELSE IF Colision(m.proys[i], m.ents[m.primario])
         THEN VerificarSinDesactivar(GolpearCon(m, i, m.primario), i + 1)
         ELSE VerificarSinDesactivar(m, i + 1)

\* ControlJuego._verificar_colisiones_proyectiles: every projectile, from the
\* i-th on, against the primary enemy; the projectile is deactivated when
\* they collide
RECURSIVE VerificarColisionesProyectiles(_, _)
VerificarColisionesProyectiles(m, i) ==
    IF i > Len(m.proys) THEN m
    ELSE IF Colision(m.proys[i], m.ents[m.primario])
         THEN VerificarColisionesProyectiles(
                  [GolpearCon(m, i, m.primario) EXCEPT !.proys[i].activo = FALSE],
                  i + 1)
         ELSE VerificarColisionesProyectiles(m, i + 1)

\* mutant: "if proyectil.colision(enemigo)" is missing
RECURSIVE ColisionesSinComprobar(_, _, _)
ColisionesSinComprobar(m, i, k) ==
    IF i > Len(m.proys) THEN m
    ELSE IF k > Len(m.lista) THEN ColisionesSinComprobar(m, i + 1, 1)
    ELSE ColisionesSinComprobar(
             [GolpearCon(m, i, m.lista[k]) EXCEPT !.proys[i].activo = FALSE],
             i, k + 1)

\* lines 163-168: every projectile against every enemy of the list;
\* "proyectil.activo = False" is a statement of the inner loop's body and
\* runs for every enemy, collision or not
RECURSIVE ColisionesProyectilesEnemigos(_, _, _)
ColisionesProyectilesEnemigos(m, i, k) ==
    IF i > Len(m.proys) THEN m
    ELSE IF k > Len(m.lista) THEN ColisionesProyectilesEnemigos(m, i + 1, 1)
    ELSE LET m1 == IF Colision(m.proys[i], m.ents[m.lista[k]])
                   THEN GolpearCon(m, i, m.lista[k])
                   ELSE m
         IN  ColisionesProyectilesEnemigos(
                 [m1 EXCEPT !.proys[i].activo = FALSE], i, k + 1)

\* mutant: "self.tiempo_desde_ultimo_dano = 0.0" is missing
ContactoSinReinicio(m, jug, id) ==
    IF Colision(jug, m.ents[id]) /\ m.dano >= CooldownDano
    THEN [m EXCEPT !.puntos = @ - 2, !.deducciones = @ + 1]
    ELSE m

\* mutant: the cooldown is not tested
ContactoSinCooldown(m, jug, id) ==
    IF Colision(jug, m.ents[id])
    THEN [m EXCEPT !.puntos = @ - 2, !.dano = 0, !.deducciones = @ + 1]
    ELSE m

\* mutant: the contact takes one point, as the helper's docstring says
ContactoUnPunto(m, jug, id) ==
    IF Colision(jug, m.ents[id]) /\ m.dano >= CooldownDano
    THEN [m EXCEPT !.puntos = @ - 1, !.dano = 0, !.deducciones = @ + 1]
    ELSE m

\* the test and the body of both player-enemy checks (lines 173-177, 222-226)
ContactoCon(m, jug, id) ==
    IF Colision(jug, m.ents[id]) /\ m.dano >= CooldownDano
    THEN [m EXCEPT !.puntos = @ - 2, !.dano = 0, !.deducciones = @ + 1]
    ELSE m

\* ControlJuego._verificar_colision_jugador_enemigo: the primary enemy
VerificarColisionJugadorEnemigo(m, jug) == ContactoCon(m, jug, m.primario)

\* lines 172-177: every enemy of the list, from the k-th on
RECURSIVE ColisionesJugadorEnemigos(_, _, _)
ColisionesJugadorEnemigos(m, jug, k) ==
    IF k > Len(m.lista) THEN m
    ELSE ColisionesJugadorEnemigos(ContactoCon(m, jug, m.lista[k]), jug, k + 1)

\* mutant: "self.enemigos.append(self.enemigo)" is missing
RespawnearSinAgregar(m, sp) ==
    LET id == NuevoId(m.ents)
        nuevo == EstablecerObjetivo(NuevoEnemigo(sp.pos, sp.radio))
    IN  [m EXCEPT !.ents = [j \in DOMAIN m.ents \cup {id} |->
                               IF j = id THEN nuevo ELSE m.ents[j]],
                  !.primario = id,
                  !.nacidos = Append(@, id)]

\* ControlJuego.respawnear_enemigo, sp being what random.randint and
\* random.choice returned
RespawnearEnemigo(m, sp) ==
    LET id == NuevoId(m.ents)
        nuevo == EstablecerObjetivo(NuevoEnemigo(sp.pos, sp.radio))
    IN  [m EXCEPT !.ents = [j \in DOMAIN m.ents \cup {id} |->
                               IF j = id THEN nuevo ELSE m.ents[j]],
                  !.primario = id,
                  !.lista = Append(@, id),
                  !.nacidos = Append(@, id)]

\* line 180
PrimarioCaido(m) == ~m.ents[m.primario].activo

\* mutant: no replacement for the fallen primary enemy
SinRespawn(m, sp) == m

\* lines 180-181
RespawnSiCaido(m, sp) == IF PrimarioCaido(m) THEN RespawnearEnemigo(m, sp) ELSE m

\* mutant: the end of the game is not checked
SinVerificarFin(m) == m

\* mutant: the score is clamped but the session is not ended
VerificarFinSinBandera(m) ==
    IF m.puntos <= 0 THEN [m EXCEPT !.puntos = 0] ELSE m

\* lines 184-186
VerificarFin(m) ==
    IF m.puntos <= 0 THEN [m EXCEPT !.jugando = FALSE, !.puntos = 0] ELSE m

\* mutant: the inactive enemies stay in the list
SinPurgar(m) == m

\* line 189
PurgarInactivos(m) ==
    LET Activo(id) == m.ents[id].activo
    IN  [m EXCEPT !.lista = SelectSeq(@, Activo),
                  !.purgados = Rango(m.lista) \ Rango(SelectSeq(m.lista, Activo))]

\* mutant: the test is ">" instead of ">="
IntervaloEstricto(m) == m.tiempo_enemigo > IntervaloEnemigo

\* line 192, after line 191 has added dt
IntervaloCumplido(m) == m.tiempo_enemigo >= IntervaloEnemigo

\* mutant: no interval spawn in a frame that has already replaced the primary
SpawnUnicoPorFotograma(m, dt, sp) ==
    LET m1 == [m EXCEPT !.tiempo_enemigo = @ + dt]
    IN  IF IntervaloCumplido(m1)
        THEN IF m1.nacidos = << >>
             THEN [RespawnearEnemigo(m1, sp) EXCEPT !.tiempo_enemigo = 0]
             ELSE [m1 EXCEPT !.tiempo_enemigo = 0]
        ELSE m1

\* lines 191-194
SpawnPorIntervalo(m, dt, sp) ==
    LET m1 == [m EXCEPT !.tiempo_enemigo = @ + dt]
    IN  IF IntervaloCumplido(m1)
        THEN [RespawnearEnemigo(m1, sp) EXCEPT !.tiempo_enemigo = 0]
        ELSE m1

\* the enemies still referenced: those of the list and the primary enemy
Alcanzables(m) ==
    [id \in Rango(m.lista) \cup {m.primario} |-> m.ents[id]]

\* the random outcomes that matter to a call: a single one when it spawns
\* nothing
Sorteo(hace_falta) ==
    IF hace_falta THEN SpawnsPosibles ELSE {CHOOSE sp \in SpawnsPosibles : TRUE}

\* the world when the collision checks start: lines 153-159 done
MundoEnColision(dt) == ActualizarEnemigos(AvanzarCooldown(Mundo, dt), dt, jugador)

\* mutant: "enemigo_inicial.establecer_objetivo(self.jugador)" is missing
InitSinObjetivo ==
    /\ puntos = PuntosIniciales
    /\ jugando = TRUE
    /\ tiempo_desde_ultimo_dano = 0
    /\ tiempo_enemigo = 0
    /\ jugador = NuevoJugador(Vec(Ancho \div 4, Alto \div 2))
    /\ ents = [id \in {1} |->
                 NuevoEnemigo(Vec(Ancho \div 2, Alto \div 4), RadioEnemigo)]
    /\ enemigos = <<1>>
    /\ enemigo = 1
    /\ reloj = 0
    /\ contacto_en = -1
    /\ ult = Informe("init", 0, TRUE, << >>, 0, << >>, {}, FALSE)

\* ControlJuego.__init__ and inicializar_juego on the 800 x 600 surface
Init ==
    /\ puntos = PuntosIniciales
    /\ jugando = TRUE
    /\ tiempo_desde_ultimo_dano = 0
    /\ tiempo_enemigo = 0
    /\ jugador = NuevoJugador(Vec(Ancho \div 4, Alto \div 2))
    /\ ents = [id \in {1} |->
                 EstablecerObjetivo(
                     NuevoEnemigo(Vec(Ancho \div 2, Alto \div 4), RadioEnemigo))]
    /\ enemigos = <<1>>
    /\ enemigo = 1
    /\ reloj = 0
    /\ contacto_en = -1
    /\ ult = Informe("init", 0, TRUE, << >>, 0, << >>, {}, FALSE)

\* the body of ControlJuego.actualizar(dt), lines 153-194, statement by
\* statement; each world is computed once from the one before
Fotograma(dt) ==
    \E m1 \in {AvanzarCooldown(Mundo, dt)} :
    \E m2 \in {ActualizarEnemigos(m1, dt, jugador)} :
    \E m3 \in {VerificarColisionesProyectiles(m2, 1)} :
    \E m4 \in {ColisionesProyectilesEnemigos(m3, 1, 1)} :
    \E m5 \in {VerificarColisionJugadorEnemigo(m4, jugador)} :
    \E m6 \in {ColisionesJugadorEnemigos(m5, jugador, 1)} :
    \E sp1 \in Sorteo(PrimarioCaido(m6)) :
    \E m7 \in {RespawnSiCaido(m6, sp1)} :
    \E m8 \in {VerificarFin(m7)} :
    \E m9 \in {PurgarInactivos(m8)} :
    \E sp2 \in Sorteo(m9.tiempo_enemigo + dt >= IntervaloEnemigo) :
    \E m \in {SpawnPorIntervalo(m9, dt, sp2)} :
        /\ puntos' = m.puntos
        /\ jugando' = m.jugando
        /\ tiempo_desde_ultimo_dano' = m.dano
        /\ tiempo_enemigo' = m.tiempo_enemigo
        /\ enemigos' = m.lista
        /\ enemigo' = m.primario
        /\ ents' = Alcanzables(m)
        /\ jugador' = [jugador EXCEPT !.proyectiles = m.proys]
        /\ reloj' = reloj + dt
        /\ contacto_en' = IF m.deducciones > 0 THEN reloj + dt ELSE contacto_en
        /\ ult' = [Informe("actualizar", dt, TRUE, m.heridos, m.deducciones,
                           m.nacidos, m.purgados, FALSE)
                       EXCEPT !.tiros = m.tiros, !.rechazos = m.rechazos]

\* mutant: the call on an ended session starts the game over
ActualizarReinicia(dt) ==
    /\ ~jugando
    /\ puntos' = PuntosIniciales
    /\ jugando' = TRUE
    /\ reloj' = reloj + dt
    /\ ult' = Informe("actualizar", dt, FALSE, << >>, 0, << >>, {}, FALSE)
    /\ UNCHANGED <<tiempo_desde_ultimo_dano, tiempo_enemigo, enemigos, enemigo,
                   ents, jugador, contacto_en>>

\* mutant: the early return of lines 150-151 is missing
ActualizarSinRetorno(dt) ==
    /\ ~jugando
    /\ Fotograma(dt)

\* ControlJuego.actualizar(dt), dt > 0, on an ended session: lines 150-151
ActualizarTerminado(dt) ==
    /\ ~jugando
    /\ reloj' = reloj + dt
    /\ ult' = Informe("actualizar", dt, FALSE, << >>, 0, << >>, {}, FALSE)
    /\ UNCHANGED <<sesion, contacto_en>>

\* ControlJuego.actualizar(dt), dt > 0, on a running session
ActualizarJugando(dt) ==
    /\ jugando
    /\ Fotograma(dt)

\* Jugador.actualizar(dt), dt > 0, with the mouse at raton
JugadorActualizar(dt, raton) ==
    /\ jugador.ultimo_disparo + dt <= MaxRecarga
    /\ jugador' = JugadorActualizarFn(jugador, dt, raton)
    /\ ult' = Informe("jugador_actualizar", dt, jugando, << >>, 0, << >>, {}, FALSE)
    /\ UNCHANGED <<puntos, jugando, tiempo_desde_ultimo_dano, tiempo_enemigo,
                   enemigos, enemigo, ents, reloj, contacto_en>>

\* Jugador.disparar(objetivo_pos), as ControlJuego.manejar_eventos calls it
\* for a left click (line 123)
Disparar(objetivo_pos) ==
    /\ LET r == DispararFn(jugador, objetivo_pos)
       IN  /\ jugador' = r.j
           /\ ult' = Informe("disparar", 0, jugando, << >>, 0, << >>, {}, r.ok)
    /\ UNCHANGED <<puntos, jugando, tiempo_desde_ultimo_dano, tiempo_enemigo,
                   enemigos, enemigo, ents, reloj, contacto_en>>

\* the bound on the player's list: a shot is explored while the list has room
HayCupo == Len(jugador.proyectiles) < MaxProyectiles

\* the same bound for the player on its own: the calls that the cooldown
\* refuses add nothing to the list and are explored as well
HayCupoORechazo == HayCupo \/ jugador.ultimo_disparo < CooldownDisparo

\* the calls a host can make, with frame times from dts up to the time limite
Paso(dts, limite) ==
    \/ \E dt \in dts : reloj + dt <= limite /\ ActualizarTerminado(dt)
    \/ \E dt \in dts : reloj + dt <= limite /\ ActualizarJugando(dt)
    \/ \E dt \in JDTs, raton \in Ratones : JugadorActualizar(dt, raton)
    \/ \E b \in Blancos : HayCupo /\ Disparar(b)

Next == Paso(DTs, MaxTiempo)

Spec == Init /\ [][Next]_vars

\* the same session driven with half-second frames only
NextCaida == Paso(JDTs, MaxTiempo)

SpecCaida == Init /\ [][NextCaida]_vars

\* the same session driven with whole-second frames for a longer time
NextLargo == Paso(DTsLargos, MaxTiempoLargo)

SpecLargo == Init /\ [][NextLargo]_vars

\* the first seconds of the session, with frames shorter than the
\* invulnerability among those explored
NextFino ==
    \/ \E dt \in DTsFinos : reloj + dt <= MaxTiempoFino /\ ActualizarJugando(dt)
    \/ \E dt \in JDTs, raton \in Ratones : JugadorActualizar(dt, raton)
    \/ \E b \in Blancos : HayCupo /\ Disparar(b)

SpecFino == Init /\ [][NextFino]_vars

\* the player of a new session driven through its own methods, firing at a
\* point away from itself
NextJugador ==
    \/ \E dt \in DTsJugador, raton \in RatonesJugador : JugadorActualizar(dt, raton)
    \/ \E b \in BlancosLejanos : HayCupoORechazo /\ Disparar(b)

SpecJugador == Init /\ [][NextJugador]_vars

\* Enemigo.actualizar(dt), dt > 0, called on the session's primary enemy
LlamarEnemigoActualizar(dt) ==
    /\ ents' = [ents EXCEPT ![enemigo] = EnemigoActualizar(@, dt, jugador)]
    /\ ult' = Informe("enemigo_actualizar", dt, jugando, << >>, 0, << >>, {}, FALSE)
    /\ UNCHANGED <<puntos, jugando, tiempo_desde_ultimo_dano, tiempo_enemigo,
                   enemigos, enemigo, jugador, reloj, contacto_en>>

\* Enemigo.recibir_dano() called on the session's primary enemy
LlamarRecibirDano ==
    /\ LET r == RecibirDano(ents[enemigo])
       IN  /\ ents' = [ents EXCEPT ![enemigo] = r.e]
           /\ ult' = Informe("recibir_dano", 0, jugando,
                             IF r.ok THEN <<enemigo>> ELSE << >>, 0, << >>, {}, r.ok)
    /\ UNCHANGED <<puntos, jugando, tiempo_desde_ultimo_dano, tiempo_enemigo,
                   enemigos, enemigo, jugador, reloj, contacto_en>>

\* the events pygame.event.get() can hand to manejar_eventos: QUIT, and a
\* press of the left (1) or the right (3) button at a point
Evento(tipo, button, pos) == [tipo |-> tipo, button |-> button, pos |-> pos]

Eventos ==
    {Evento("QUIT", 0, Vec(0, 0))}
        \cup {Evento("MOUSEBUTTONDOWN", b, pos) : b \in {1, 3}, pos \in BlancosLejanos}

\* the queues of 1 to MaxEventos events
Colas == UNION {[1..n -> Eventos] : n \in 1..MaxEventos}

\* the loop of ControlJuego.manejar_eventos (lines 118-123) from the i-th
\* event on; st = [jugando, j, disparos], j being the player and disparos
\* the number of disparar calls that returned True
RECURSIVE ProcesarEventos(_, _, _)
ProcesarEventos(st, evs, i) ==
    IF i > Len(evs) THEN st
    ELSE IF evs[i].tipo = "QUIT"
         THEN ProcesarEventos([st EXCEPT !.jugando = FALSE], evs, i + 1)
    ELSE IF evs[i].tipo = "MOUSEBUTTONDOWN" /\ evs[i].button = 1
         THEN LET r == DispararFn(st.j, evs[i].pos)
              IN  ProcesarEventos(
                      [st EXCEPT !.j = r.j,
                                 !.disparos = IF r.ok THEN @ + 1 ELSE @],
                      evs, i + 1)
    ELSE ProcesarEventos(st, evs, i + 1)

\* ControlJuego.manejar_eventos() with evs in the event queue
ManejarEventos(evs) ==
    /\ \E st \in {ProcesarEventos([jugando |-> jugando, j |-> jugador,
                                    disparos |-> 0], evs, 1)} :
           /\ jugando' = st.jugando
           /\ jugador' = st.j
           /\ ult' = [Informe("manejar_eventos", 0, jugando, << >>, 0, << >>, {},
                              st.disparos > 0)
                          EXCEPT !.eventos = evs,
                                 !.disparos = st.disparos
                                     + IF ult.op = "manejar_eventos"
                                       THEN ult.disparos ELSE 0]
    /\ UNCHANGED <<puntos, tiempo_desde_ultimo_dano, tiempo_enemigo,
                   enemigos, enemigo, ents, reloj, contacto_en>>

\* the session driven as the game loop drives it, through manejar_eventos
\* and actualizar, with the player's own update called beside them
NextEventos ==
    \/ \E dt \in DTs : reloj + dt <= MaxTiempoEventos /\ ActualizarTerminado(dt)
    \/ \E dt \in DTs : reloj + dt <= MaxTiempoEventos /\ ActualizarJugando(dt)
    \/ \E dt \in JDTs, raton \in Ratones : JugadorActualizar(dt, raton)
    \/ \E evs \in Colas : HayCupoORechazo /\ ManejarEventos(evs)

SpecEventos == Init /\ [][NextEventos]_vars

\* the session driven only through manejar_eventos and actualizar, the two
\* calls of the game loop (lines 334-343) that change it
NextBucle ==
    \/ \E dt \in DTs : reloj + dt <= MaxTiempo /\ ActualizarTerminado(dt)
    \/ \E dt \in DTs : reloj + dt <= MaxTiempo /\ ActualizarJugando(dt)
    \/ \E evs \in Colas : ManejarEventos(evs)

SpecBucle == Init /\ [][NextBucle]_vars

\* mutant: the methods do not test dt
DtSinComprobar(dt) == FALSE

\* the test "if dt <= 0" that opens the four actualizar methods
DtInvalido(dt) == dt <= 0

\* raise ValueError("dt debe ser un valor positivo"): the call ends there
LanzaValueError(op, dt) ==
    /\ ult' = [Informe(op, dt, jugando, << >>, 0, << >>, {}, FALSE)
                   EXCEPT !.error = "ValueError"]
    /\ UNCHANGED <<sesion, reloj, contacto_en>>

\* ControlJuego.actualizar(dt) for any dt
ControlActualizar(dt) ==
    IF DtInvalido(dt) THEN LanzaValueError("actualizar", dt)
    ELSE /\ reloj + dt <= MaxTiempoErrores
         /\ ActualizarTerminado(dt) \/ ActualizarJugando(dt)

\* Jugador.actualizar(dt) for any dt, with the mouse at raton
JugadorActualizarCualquiera(dt, raton) ==
    IF DtInvalido(dt) THEN LanzaValueError("jugador_actualizar", dt)
    ELSE JugadorActualizar(dt, raton)

\* Enemigo.actualizar(dt) for any dt, called on the primary enemy
EnemigoActualizarCualquiera(dt) ==
    IF DtInvalido(dt) THEN LanzaValueError("enemigo_actualizar", dt)
    ELSE LlamarEnemigoActualizar(dt)

\* Proyectil.actualizar(dt) for any dt, called on the i-th projectile of the
\* player's list
ProyectilActualizarCualquiera(i, dt) ==
    /\ i \in 1..Len(jugador.proyectiles)
    /\ IF DtInvalido(dt) THEN LanzaValueError("proyectil_actualizar", dt)
       ELSE /\ jugador' = [jugador EXCEPT !.proyectiles[i] =
                                             ProyectilActualizar(@, dt)]
            /\ ult' = [Informe("proyectil_actualizar", dt, jugando, << >>, 0,
                               << >>, {}, FALSE) EXCEPT !.indice = i]
            /\ UNCHANGED <<puntos, jugando, tiempo_desde_ultimo_dano,
                           tiempo_enemigo, enemigos, enemigo, ents, reloj,
                           contacto_en>>

\* the projectiles of the player of a new session: fired to the left, to the
\* right and upwards, updated one by one, and collected by the player's
\* update
NextProyectil ==
    \/ \E dt \in DTsProyectil, i \in 1..MaxProyectiles :
           ProyectilActualizarCualquiera(i, dt)
    \/ \E dt \in JDTs, raton \in RatonesJugador : JugadorActualizar(dt, raton)
    \/ \E b \in BlancosProyectil : HayCupo /\ Disparar(b)

SpecProyectil == Init /\ [][NextProyectil]_vars

\* the same with up to MaxLista projectiles in the player's list, the
\* player at rest and the projectiles updated one by one by 1.0 s
NextLista ==
    \/ \E dt \in DTsLargos, i \in 1..MaxLista :
           ProyectilActualizarCualquiera(i, dt)
    \/ \E dt \in JDTs, raton \in Ratones : JugadorActualizar(dt, raton)
    \/ \E b \in BlancosProyectil :
           Len(jugador.proyectiles) < MaxLista /\ Disparar(b)

SpecLista == Init /\ [][NextLista]_vars

\* the four actualizar methods called with any dt, valid or not, and shots
NextErrores ==
    \/ \E dt \in DTsCualesquiera : ControlActualizar(dt)
    \/ \E dt \in DTsCualesquiera, raton \in Ratones :
           JugadorActualizarCualquiera(dt, raton)
    \/ \E dt \in DTsCualesquiera : EnemigoActualizarCualquiera(dt)
    \/ \E dt \in DTsCualesquiera, i \in 1..MaxProyectiles :
           ProyectilActualizarCualquiera(i, dt)
    \/ \E b \in Blancos : HayCupo /\ Disparar(b)

SpecErrores == Init /\ [][NextErrores]_vars

\* a session holding the three kinds of figure for calls of Figura.colision:
\* the player, one enemy, alive or defeated, at a point around the player,
\* and one projectile of the player, active or not
InitColision ==
    /\ puntos = PuntosIniciales
    /\ jugando = TRUE
    /\ tiempo_desde_ultimo_dano = 0
    /\ tiempo_enemigo = 0
    /\ \E pos \in PosicionesProyectil, vivo \in BOOLEAN :
           jugador = [NuevoJugador(Vec(Ancho \div 4, Alto \div 2))
                          EXCEPT !.proyectiles =
                              <<[NuevoProyectil(pos, Vec(1, 0))
                                    EXCEPT !.activo = vivo]>>]
    /\ \E pos \in PosicionesEnemigo, radio \in RadiosEnemigo, vivo \in BOOLEAN :
           ents = [id \in {1} |->
                     IF vivo
                     THEN EstablecerObjetivo(NuevoEnemigo(pos, radio))
                     ELSE RecibirDano(
                              [EstablecerObjetivo(NuevoEnemigo(pos, radio))
                                  EXCEPT !.vida = 1]).e]
    /\ enemigos = <<1>>
    /\ enemigo = 1
    /\ reloj = 0
    /\ contacto_en = -1
    /\ ult = Informe("init", 0, TRUE, << >>, 0, << >>, {}, FALSE)

\* a.colision(b), op naming the two figures
LlamarColision(op, a, b) ==
    /\ ult' = Informe(op, 0, jugando, << >>, 0, << >>, {}, Colision(a, b))
    /\ UNCHANGED <<sesion, reloj, contacto_en>>

NextColision ==
    \/ LlamarColision("jugador.colision(enemigo)", jugador, ents[enemigo])
    \/ LlamarColision("enemigo.colision(jugador)", ents[enemigo], jugador)
    \/ LlamarColision("proyectil.colision(enemigo)",
                      jugador.proyectiles[1], ents[enemigo])
    \/ LlamarColision("enemigo.colision(proyectil)",
                      ents[enemigo], jugador.proyectiles[1])
    \/ LlamarColision("enemigo.colision(enemigo)", ents[enemigo], ents[enemigo])
    \/ LlamarColision("proyectil.colision(proyectil)",
                      jugador.proyectiles[1], jugador.proyectiles[1])

SpecColision == InitColision /\ [][NextColision]_vars

\* the enemy of a new session driven through its own methods
NextEnemigo ==
    \/ \E dt \in DTsEnemigo : LlamarEnemigoActualizar(dt)
    \/ LlamarRecibirDano

SpecEnemigo == Init /\ [][NextEnemigo]_vars

\* the first seconds of the session with the primary enemy also driven
\* through its own methods, so that a frame can start with a defeated enemy
\* in the list
NextDerrotado ==
    \/ \E dt \in DTsLargos : reloj + dt <= MaxTiempoFino /\ ActualizarJugando(dt)
    \/ \E dt \in DTsLargos : LlamarEnemigoActualizar(dt)
    \/ LlamarRecibirDano

SpecDerrotado == Init /\ [][NextDerrotado]_vars

\* the player has come to rest in the top right corner of the screen
JugadorEnEsquina == jugador.posicion = Vec(Ancho - RadioJugador, RadioJugador)

\* the session with the mouse held in the top right corner of the window:
\* the player goes to the corner and, once it is there, the frames and the
\* updates of the primary enemy bring the enemies after it
NextPantalla ==
    \/ \E dt \in DTsLargos :
           /\ reloj + dt <= MaxTiempo
           /\ JugadorEnEsquina
           /\ ActualizarJugando(dt)
    \/ \E dt \in JDTs, raton \in RatonesEsquina : JugadorActualizar(dt, raton)
    \/ \E b \in Ratones : HayCupo /\ Disparar(b)
    \/ \E dt \in DTsLargos : JugadorEnEsquina /\ LlamarEnemigoActualizar(dt)

SpecPantalla == Init /\ [][NextPantalla]_vars

----------------------------------------------------------------------------
(***************************************************************************)
(* Properties.  A step "of actualizar" is one after which ult.op is        *)
(* "actualizar"; the session was running at its start iff jugando holds    *)
(* before it.                                                              *)
(***************************************************************************)
FotogramaJugando == ult'.op = "actualizar" /\ jugando
FotogramaTerminado == ult'.op = "actualizar" /\ ~jugando

\* the enemies of the list that projectile p collides with in world m
Tocados(m, p) == {id \in Rango(m.lista) : Colision(p, m.ents[id])}

\* C1: once jugando is false it is never true again (the flag changes at
\* most once, from true to false).
C1_JugandoTerminal == [][~jugando => ~jugando']_vars

\* C1 witness: a frame has just ended the session.
C1_Testigo == ~jugando /\ ult.op = "actualizar" /\ ult.corria

\* C2: actualizar(dt), dt > 0, on an ended session changes no field of the
\* session (score, cooldown, spawn accumulator, enemy list, primary enemy,
\* every enemy, the player) and spawns no enemy.
C2_TerminadoNoOp ==
    [][FotogramaTerminado => (UNCHANGED sesion /\ ult'.nacidos = << >>)]_vars

\* C2 witness: actualizar has been called on an ended session.
C2_Testigo == ult.op = "actualizar" /\ ~ult.corria /\ ~jugando

\* C3: in a running session every enemy of the list that an active
\* projectile collides with at the collision step, and that is not
\* invulnerable then, takes the damage (and the score its 2 points) in that
\* frame.  Stated for the unambiguous case only: the projectile collides
\* with no other enemy and no other projectile collides with that enemy.
C3_TodoEnemigoGolpeado ==
    [][FotogramaJugando =>
        LET m == MundoEnColision(ult'.dt)
        IN  \A i \in 1..Len(m.proys) : \A id \in Rango(m.lista) :
                (/\ Tocados(m, m.proys[i]) = {id}
                 /\ \A j \in 1..Len(m.proys) : j # i => id \notin Tocados(m, m.proys[j])
                 /\ m.ents[id].tiempo_invulnerable <= 0)
                => id \in Rango(ult'.heridos)]_vars

\* C4: a projectile that is active and collides with no enemy at the
\* collision step of a running frame is still active after the frame.
C4_SoloColisionDesactiva ==
    [][FotogramaJugando =>
        LET m == MundoEnColision(ult'.dt)
        IN  \A i \in 1..Len(m.proys) :
                (m.proys[i].activo /\ Tocados(m, m.proys[i]) = {})
                => jugador'.proyectiles[i].activo]_vars

\* C5: every actualizar(dt) on a running session runs the player's update:
\* ultimo_disparo grows by dt and every owned projectile is moved and aged
\* by dt.
C5_FotogramaActualizaJugador ==
    [][FotogramaJugando =>
        /\ jugador'.ultimo_disparo = jugador.ultimo_disparo + ult'.dt
        /\ \A i \in 1..Len(jugador.proyectiles) :
               jugador.proyectiles[i].activo =>
                   \E j \in 1..Len(jugador'.proyectiles) :
                       jugador'.proyectiles[j].tiempo_vida
                           = jugador.proyectiles[i].tiempo_vida - ult'.dt]_vars

\* C6: the score is never negative at the end of a call.
C6_PuntosNoNegativos == puntos >= 0

\* C6 witness: a frame with a successful hit and a contact deduction.
C6_Testigo == ult.op = "actualizar" /\ ult.deducciones > 0 /\ Len(ult.heridos) > 0

\* C7: at the end of every call the session is ended iff the score is 0.
C7_TerminadoSiiCero == (~jugando) <=> (puntos = 0)

\* C7 witness: the frame in which the score reached 0.
C7_Testigo == puntos = 0 /\ ~jugando /\ ult.corria /\ ult.deducciones = 1

\* C8: at most one contact deduction (2 points) per frame.
C8_UnaDeduccionPorFotograma == ult.deducciones <= 1

\* C8 witness: one deduction in a frame in which two enemies of the list,
\* neither of them created by the frame, touched the player.
C8_Testigo ==
    /\ ult.op = "actualizar" /\ ult.deducciones = 1
    /\ Cardinality({id \in Rango(enemigos) \ Rango(ult.nacidos) :
                        Colision(jugador, ents[id])}) >= 2

\* C9: a contact deduction happens only with the cooldown accumulator at
\* 1.0 s or more and resets it to 0; two deductions are at least 1.0 s of
\* frames apart, and none happens in the first 1.0 s of the session.
C9_DeduccionTrasCooldown ==
    [][(ult'.op = "actualizar" /\ ult'.deducciones > 0) =>
        /\ tiempo_desde_ultimo_dano + ult'.dt >= CooldownDano
        /\ tiempo_desde_ultimo_dano' = 0
        /\ reloj' >= CooldownDano
        /\ (contacto_en >= 0 => reloj' - contacto_en >= CooldownDano)]_vars

\* C9 witness: a second deduction, exactly 1.0 s after the one before.
C9_Testigo ==
    /\ ult.op = "actualizar" /\ ult.deducciones = 1 /\ ult.dt = CooldownDano
    /\ puntos <= PuntosIniciales - 4 /\ ult.heridos = << >>
    /\ contacto_en = reloj /\ tiempo_desde_ultimo_dano = 0

\* C10: every enemy of the list is active (and has hit points left) at the
\* end of every call; an enemy that died in the frame is out of the list.
C10_ListaSoloActivos ==
    /\ \A id \in Rango(enemigos) : ents[id].activo /\ ents[id].vida > 0
    /\ ult.purgados \cap Rango(enemigos) = {}

\* C10 witness: an enemy died in the last frame and was taken out.
C10_Testigo ==
    /\ ult.op = "actualizar" /\ ult.purgados # {}
    /\ \E k \in 1..Len(ult.heridos) : ult.heridos[k] \in ult.purgados

\* C11: at the end of every ControlJuego.actualizar call every projectile of
\* the player's list is active (a projectile deactivated by the collision
\* step has left the list).
C11_ProyectilesActivos ==
    ult.op = "actualizar" =>
        \A i \in 1..Len(jugador.proyectiles) : jugador.proyectiles[i].activo

\* a step that is a call of Enemigo.recibir_dano / Enemigo.actualizar on the
\* primary enemy
PasoRecibirDano == ult'.op = "recibir_dano"
PasoEnemigoActualizar == ult'.op = "enemigo_actualizar"

\* C12: the remaining invulnerability of every enemy is never negative,
\* whatever Enemigo.actualizar(dt) and Enemigo.recibir_dano calls were made.
C12_InvulnerabilidadNoNegativa ==
    \A id \in DOMAIN ents : ents[id].tiempo_invulnerable >= 0

\* C13: every enemy has 0 <= vida <= vida_maxima, and an enemy with vida 0
\* is inactive.
C13_VidaEnRango ==
    \A id \in DOMAIN ents :
        /\ ents[id].vida \in 0..VidaMaxima
        /\ ents[id].vida = 0 => ~ents[id].activo

\* C13 witness: a defeated enemy, updated again after its defeat.
C13_Testigo ==
    /\ ents[enemigo].vida = 0 /\ ~ents[enemigo].activo
    /\ ult.op = "enemigo_actualizar"

\* C14: recibir_dano on an enemy whose invulnerability is running returns
\* false and changes nothing of the enemy; a call right after a successful
\* call returns false.
C14_DanoRechazado ==
    [][/\ (PasoRecibirDano /\ ents[enemigo].tiempo_invulnerable > 0)
            => (~ult'.resultado /\ ents' = ents)
       /\ (PasoRecibirDano /\ ult.op = "recibir_dano" /\ ult.resultado)
            => ~ult'.resultado]_vars

\* C14 witness: the call right after a successful one was refused.
C14_Testigo ==
    /\ ult.op = "recibir_dano" /\ ~ult.resultado
    /\ ents[enemigo].activo /\ ents[enemigo].desde_dano = 0
    /\ ents[enemigo].tiempo_invulnerable = TiempoInvulnerable

\* C15: recibir_dano on an enemy whose invulnerability is not running
\* (tiempo_invulnerable <= 0) returns true, takes exactly 1 from vida and
\* sets the invulnerability to 0.5 s, the killing hit included; the enemy
\* becomes inactive iff vida reached 0.
C15_DanoAceptado ==
    [][(PasoRecibirDano /\ ents[enemigo].tiempo_invulnerable <= 0) =>
        /\ ult'.resultado
        /\ ents'[enemigo].vida = ents[enemigo].vida - 1
        /\ ents'[enemigo].tiempo_invulnerable = TiempoInvulnerable
        /\ ents'[enemigo].activo = (ents[enemigo].activo /\ ents'[enemigo].vida # 0)
        /\ ents[enemigo].activo]_vars

\* C15 witness: the killing hit returned true.
C15_Testigo ==
    /\ ult.op = "recibir_dano" /\ ult.resultado
    /\ ents[enemigo].vida = 0 /\ ~ents[enemigo].activo
    /\ ents[enemigo].tiempo_invulnerable = TiempoInvulnerable

Solapan(a, b) ==
    Colision([a EXCEPT !.activo = TRUE], [b EXCEPT !.activo = TRUE])

\* C17: a projectile that at the collision step collides only with enemies
\* whose invulnerability is running is deactivated, does no damage and earns
\* nothing; the score of a frame rises by 2 exactly for every recibir_dano
\* that returned true (and falls by 2 for every contact deduction).
C17_InvulnerableDesactivaSinPuntos ==
    [][FotogramaJugando =>
        LET m == MundoEnColision(ult'.dt)
        IN  /\ puntos' = puntos + 2 * Len(ult'.heridos) - 2 * ult'.deducciones
            /\ \A i \in 1..Len(m.proys) :
                 (/\ m.proys[i].activo
                  /\ Tocados(m, m.proys[i]) # {}
                  /\ \A id \in Tocados(m, m.proys[i]) :
                         m.ents[id].tiempo_invulnerable > 0)
                 => /\ ~jugador'.proyectiles[i].activo
                    /\ i \notin Rango(ult'.tiros)
                    /\ \A id \in Tocados(m, m.proys[i]) :
                           /\ id \notin Rango(ult'.heridos)
                           /\ ents'[id].vida = ents[id].vida]_vars

\* C17 witness: in a frame without damage, a projectile collided with an
\* enemy that refused the damage; it is deactivated and lies on an enemy
\* whose invulnerability is still running.
C17_Testigo ==
    /\ ult.op = "actualizar" /\ ult.corria /\ ult.heridos = << >>
    /\ \E i \in Rango(ult.rechazos) : \E id \in Rango(enemigos) :
           /\ ~jugador.proyectiles[i].activo
           /\ Solapan(jugador.proyectiles[i], ents[id])
           /\ ents[id].tiempo_invulnerable > 0

\* the number of entries of the sequence s equal to x
Veces(s, x) == Cardinality({k \in 1..Len(s) : s[k] = x})

\* C18: within one frame a projectile damages at most one enemy, and the
\* score rises by at most 2 for every projectile that did damage, although
\* the primary-enemy pass and the all-enemies pass both run.
C18_UnEnemigoPorProyectil ==
    [][FotogramaJugando =>
        /\ \A i \in 1..Len(jugador.proyectiles) : Veces(ult'.tiros, i) <= 1
        /\ puntos' - puntos <= 2 * Cardinality(Rango(ult'.tiros))]_vars

\* C18 witness: the projectile that did the damage of the frame lies on a
\* second enemy of the list that was there during the frame and is not
\* invulnerable.
C18_Testigo ==
    /\ ult.op = "actualizar" /\ Len(ult.tiros) = 1 /\ Len(ult.heridos) = 1
    /\ \E id \in Rango(enemigos) \ (Rango(ult.nacidos) \cup Rango(ult.heridos)) :
           /\ Solapan(jugador.proyectiles[ult.tiros[1]], ents[id])
           /\ ents[id].tiempo_invulnerable <= 0

\* a step that is a call of Jugador.disparar
PasoDisparar == ult'.op = "disparar"

\* C19: disparar with ultimo_disparo < 0.3 s returns false and leaves the
\* player as it was; otherwise it returns true, appends exactly one active
\* projectile at the player's position and resets ultimo_disparo to 0.
\* ultimo_disparo grows only in Jugador.actualizar, by its dt, so two
\* successful shots are at least 0.3 s of player updates apart.
C19_DisparoYCooldown ==
    [][/\ PasoDisparar =>
            IF jugador.ultimo_disparo < CooldownDisparo
            THEN ~ult'.resultado /\ jugador' = jugador
            ELSE LET n == Len(jugador.proyectiles)
                 IN  /\ ult'.resultado
                     /\ jugador'.ultimo_disparo = 0
                     /\ jugador'.posicion = jugador.posicion
                     /\ Len(jugador'.proyectiles) = n + 1
                     /\ SubSeq(jugador'.proyectiles, 1, n) = jugador.proyectiles
                     /\ jugador'.proyectiles[n + 1].activo
                     /\ jugador'.proyectiles[n + 1].posicion = jugador.posicion
       /\ jugador'.ultimo_disparo > jugador.ultimo_disparo =>
            /\ ult'.op = "jugador_actualizar"
            /\ jugador'.ultimo_disparo = jugador.ultimo_disparo + ult'.dt]_vars

\* C19 witness: a shot refused 0.2 s of player updates after a successful
\* one, the player having moved since the start.
C19_Testigo ==
    /\ ult.op = "disparar" /\ ~ult.resultado
    /\ jugador.ultimo_disparo = 2
    /\ Len(jugador.proyectiles) = 1
    /\ jugador.proyectiles[1].tiempo_vida = TiempoVida - 2
    /\ jugador.posicion # Vec(Ancho \div 4, Alto \div 2)

\* C20: on a newly constructed Jugador the first disparar returns True and
\* creates a projectile, and a second call right after it returns False.
C20_PrimerDisparo ==
    [][/\ (ult.op = "init" /\ PasoDisparar)
            => (ult'.resultado /\ Len(jugador'.proyectiles) = 1)
       /\ (ult.op = "disparar" /\ ult.resultado /\ PasoDisparar)
            => ~ult'.resultado]_vars

\* a step that is a call of ControlJuego.manejar_eventos
PasoManejarEventos == ult'.op = "manejar_eventos"

\* the left clicks among the events of a queue
ClicsIzquierdos(evs) ==
    {i \in 1..Len(evs) : evs[i].tipo = "MOUSEBUTTONDOWN" /\ evs[i].button = 1}

\* C21: however many click events manejar_eventos processes, one call adds
\* at most one projectile to the player's list, and so do all the calls made
\* between two updates (of the session or of the player) taken together.
C21_UnDisparoPorFotograma ==
    [][PasoManejarEventos =>
        /\ Len(jugador'.proyectiles) <= Len(jugador.proyectiles) + 1
        /\ ult'.disparos <= 1
        /\ (ult.op = "manejar_eventos" /\ ult.disparos = 1)
               => jugador'.proyectiles = jugador.proyectiles]_vars

\* C21 witness: a call that processed two left clicks added one projectile.
C21_Testigo ==
    /\ ult.op = "manejar_eventos" /\ ult.resultado /\ ult.disparos = 1
    /\ Cardinality(ClicsIzquierdos(ult.eventos)) = 2
    /\ Len(jugador.proyectiles) = 1

\* the primary enemy, active before the step, is inactive (or gone from the
\* session) after it
PrimarioCayo ==
    /\ ents[enemigo].activo
    /\ enemigo \notin DOMAIN ents' \/ ~ents'[enemigo].activo

\* C22: a frame in which the primary enemy became inactive creates a
\* replacement in that same call: a new enemy, active, with full vida and
\* the player as target, which is in the list when the call returns and is
\* the primary enemy then, unless the interval spawn of the same call made a
\* later enemy the primary one.
C22_ReemplazoInmediato ==
    [][(FotogramaJugando /\ PrimarioCayo) =>
        LET n == ult'.nacidos
        IN  /\ Len(n) >= 1
            /\ n[1] \notin DOMAIN ents
            /\ n[1] \in Rango(enemigos')
            /\ ents'[n[1]].activo /\ ents'[n[1]].vida = VidaMaxima
            /\ ents'[n[1]].objetivo
            /\ enemigo' = n[Len(n)]
            /\ tiempo_enemigo' # 0 => (Len(n) = 1 /\ enemigo' = n[1])]_vars

\* C22 witness: the only enemy of the session died in the last frame and
\* its replacement is the primary enemy and the only one of the list.
C22_Testigo ==
    /\ ult.op = "actualizar" /\ ult.corria
    /\ Len(ult.heridos) = 1 /\ ult.purgados = {ult.heridos[1]}
    /\ Len(ult.nacidos) = 1 /\ enemigo = ult.nacidos[1]
    /\ enemigos = <<enemigo>> /\ ents[enemigo].activo

\* no enemy of the session has ever been hit: every enemy created so far is
\* still there (identifiers are handed out in order and never reused) and
\* none has taken damage
SinGolpes ==
    /\ DOMAIN ents = 1..MaxDe(DOMAIN ents)
    /\ \A id \in DOMAIN ents :
           ents[id].desde_dano = -1 /\ ents[id].vida = VidaMaxima

\* C23: a frame of a running session adds dt to the spawn accumulator; if
\* the sum is 5.0 s or more it creates exactly one enemy besides the
\* replacement of a fallen primary, which is the primary afterwards, and
\* the accumulator is 0; otherwise the sum is kept and only the replacement,
\* if any, is created.  With frames of 1.0 s and no hit, the session has
\* its second and its third enemy after 5 and after 10 frames.
C23_SpawnPorIntervalo ==
    [][FotogramaJugando =>
        LET acumulado == tiempo_enemigo + ult'.dt
            reemplazos == IF PrimarioCayo THEN 1 ELSE 0
            n == ult'.nacidos
        IN  /\ IF acumulado >= IntervaloEnemigo
               THEN /\ tiempo_enemigo' = 0
                    /\ Len(n) = reemplazos + 1
                    /\ enemigo' = n[Len(n)] /\ enemigo' \notin DOMAIN ents
                    /\ enemigo' \in Rango(enemigos') /\ ents'[enemigo'].activo
               ELSE /\ tiempo_enemigo' = acumulado
                    /\ Len(n) = reemplazos
            /\ (SinGolpes' /\ reloj' = IntervaloEnemigo)
                   => Cardinality(DOMAIN ents') = 2
            /\ (SinGolpes' /\ reloj' = 2 * IntervaloEnemigo)
                   => Cardinality(DOMAIN ents') = 3]_vars

\* C23 witness: the tenth frame of 1.0 s of a session without hits has just
\* created the third enemy.
C23_Testigo ==
    /\ ult.op = "actualizar" /\ ult.corria /\ ult.dt = 10
    /\ reloj = 2 * IntervaloEnemigo /\ SinGolpes
    /\ tiempo_enemigo = 0 /\ ult.nacidos = <<3>> /\ enemigo = 3
    /\ Len(enemigos) = 3

\* C24: a frame in which the primary enemy dies and the spawn accumulator
\* reaches 5.0 s creates two enemies; both are new, active and in the list
\* when the call returns, and the second one, created by the interval, is
\* the primary enemy.
C24_DosNacidosEnUnFotograma ==
    [][(/\ FotogramaJugando /\ PrimarioCayo
        /\ tiempo_enemigo + ult'.dt >= IntervaloEnemigo) =>
        LET n == ult'.nacidos
        IN  /\ Len(n) = 2 /\ n[1] # n[2]
            /\ \A k \in 1..2 :
                   /\ n[k] \notin DOMAIN ents
                   /\ n[k] \in Rango(enemigos')
                   /\ ents'[n[k]].activo /\ ents'[n[k]].vida = VidaMaxima
            /\ enemigo' = n[2]
            /\ enemigos'[Len(enemigos')] = n[2]
            /\ enemigos'[Len(enemigos') - 1] = n[1]]_vars

\* C24 witness: the frame that completed 5.0 s killed the only enemy of the
\* session and left its two successors in the list.
C24_Testigo ==
    /\ ult.op = "actualizar" /\ ult.corria
    /\ Len(ult.heridos) = 1 /\ ult.purgados = {ult.heridos[1]}
    /\ Len(ult.nacidos) = 2 /\ enemigos = ult.nacidos
    /\ enemigo = ult.nacidos[2] /\ tiempo_enemigo = 0
    /\ \A id \in Rango(enemigos) : ents[id].activo

\* C25: a frame in which no active projectile collides with an enemy at the
\* collision step leaves that enemy in the session with the vida and the
\* active flag it had; an enemy that has never taken damage is active with
\* full vida.
C25_SinDanoPorTiempo ==
    [][FotogramaJugando =>
        /\ \A id \in DOMAIN ents :
               \E e \in {EnemigoActualizar(ents[id], ult'.dt, jugador)} :
                   (\A i \in 1..Len(jugador.proyectiles) :
                        ~Colision(jugador.proyectiles[i], e))
                   => /\ id \in DOMAIN ents'
                      /\ ents'[id].vida = ents[id].vida
                      /\ ents'[id].activo = ents[id].activo
        /\ \A id \in DOMAIN ents' :
               ents'[id].desde_dano = -1
               => (ents'[id].activo /\ ents'[id].vida = VidaMaxima)]_vars

\* C25 witness: after 10 s of frames the first enemy, never hit, is active
\* with full vida; the last frame had a projectile that lies away from it,
\* and the player has lost points.
C25_Testigo ==
    /\ ult.op = "actualizar" /\ ult.corria /\ reloj >= 2 * IntervaloEnemigo
    /\ 1 \in DOMAIN ents /\ ents[1].desde_dano = -1
    /\ ents[1].activo /\ ents[1].vida = VidaMaxima
    /\ \E i \in 1..Len(jugador.proyectiles) :
           ~Solapan(jugador.proyectiles[i], ents[1])
    /\ puntos < PuntosIniciales

\* the squared distance between the centres of a and b
Distancia2(a, b) == Cuadrado(Resta(a.posicion, b.posicion))

\* C26: every Enemigo.actualizar(dt) of an active enemy whose target is
\* active and not at the enemy's own position leaves the enemy strictly
\* nearer to the target, which has not moved.
C26_PersecucionEstricta ==
    [][(/\ PasoEnemigoActualizar
        /\ ents[enemigo].activo /\ ents[enemigo].objetivo /\ jugador.activo
        /\ ents[enemigo].posicion # jugador.posicion) =>
        Distancia2(ents'[enemigo], jugador) < Distancia2(ents[enemigo], jugador)]_vars

\* the vector v, in thousandths, has magnitude 1 up to the rounding of its
\* two components
EsUnitario(v) ==
    /\ Cuadrado(v) >= Unidad * Unidad - 2 * Unidad
    /\ Cuadrado(v) <= Unidad * Unidad + 2 * Unidad

\* C27: every active projectile of the player, whatever point it was fired
\* at, has a direction of magnitude 1.
C27_DireccionUnitaria ==
    \A i \in 1..Len(jugador.proyectiles) :
        jugador.proyectiles[i].activo => EsUnitario(jugador.proyectiles[i].direccion)

\* a step that is a call of one of the four actualizar methods
PasoAlgunActualizar ==
    ult'.op \in {"actualizar", "jugador_actualizar", "enemigo_actualizar",
                 "proyectil_actualizar"}

\* C28: ControlJuego.actualizar, Jugador.actualizar, Enemigo.actualizar and
\* Proyectil.actualizar called with dt <= 0 raise ValueError and leave the
\* session, with its player, projectiles and enemies, exactly as it was;
\* with dt > 0 they do not raise.
C28_DtInvalidoSinCambio ==
    [][PasoAlgunActualizar =>
        /\ ult'.dt <= 0 => (ult'.error = "ValueError" /\ UNCHANGED sesion)
        /\ ult'.dt > 0 => ult'.error = ""]_vars

\* C28 witness: ControlJuego.actualizar(0) was refused in a running session
\* in which an active projectile lies on the primary enemy, so that the body
\* of the call would have changed the session.
C28_Testigo ==
    /\ ult.op = "actualizar" /\ ult.error = "ValueError" /\ ult.dt = 0
    /\ jugando
    /\ \E i \in 1..Len(jugador.proyectiles) :
           Colision(jugador.proyectiles[i], ents[enemigo])

\* both figures are active and their centres are no farther apart than the
\* sum of the radii
SeTocan(a, b) ==
    /\ a.activo /\ b.activo
    /\ Distancia2(a, b) <= (a.radio + b.radio) * (a.radio + b.radio)

\* C29: a.colision(b) is true iff a and b are both active and the distance
\* of their centres is at most the sum of their radii; a.colision(b) and
\* b.colision(a) agree; a figure collides with itself iff it is active.
C29_ColisionExacta ==
    LET e == ents[enemigo]
        p == jugador.proyectiles[1]
    IN  /\ ult.op = "jugador.colision(enemigo)" => ult.resultado = SeTocan(jugador, e)
        /\ ult.op = "enemigo.colision(jugador)" => ult.resultado = SeTocan(jugador, e)
        /\ ult.op = "proyectil.colision(enemigo)" => ult.resultado = SeTocan(p, e)
        /\ ult.op = "enemigo.colision(proyectil)" => ult.resultado = SeTocan(p, e)
        /\ ult.op = "enemigo.colision(enemigo)" => ult.resultado = e.activo
        /\ ult.op = "proyectil.colision(proyectil)" => ult.resultado = p.activo

\* C29 witness: the enemy, of radius 20, was asked about the player, of
\* radius 20, with their centres exactly 40 apart, and answered true.
C29_Testigo ==
    /\ ult.op = "enemigo.colision(jugador)" /\ ult.resultado
    /\ jugador.radio = 20 /\ ents[enemigo].radio = 20
    /\ Distancia2(jugador, ents[enemigo]) = 40 * 40
    /\ ents[enemigo].posicion.y # jugador.posicion.y

\* C30: a newly constructed session is running with 10 points, the damage
\* cooldown and the spawn accumulator at 0, one active player at a quarter
\* of the width and half the height, and one enemy, which is the primary
\* one: active, with full vida, at half the width and a quarter of the
\* height, and with the player as its target.
C30_SesionInicial ==
    ult.op = "init" =>
        /\ jugando /\ puntos = 10
        /\ tiempo_desde_ultimo_dano = 0 /\ tiempo_enemigo = 0
        /\ jugador.activo /\ jugador.posicion = Vec(Ancho \div 4, Alto \div 2)
        /\ Len(enemigos) = 1 /\ enemigos[1] = enemigo /\ DOMAIN ents = {enemigo}
        /\ ents[enemigo].activo /\ ents[enemigo].vida = VidaMaxima
        /\ ents[enemigo].posicion = Vec(Ancho \div 2, Alto \div 4)
        /\ ents[enemigo].objetivo

\* C30 witness: the session as constructed, before any call.
C30_Testigo ==
    /\ ult.op = "init" /\ reloj = 0
    /\ jugador.posicion = Vec(200, 300) /\ ents[enemigo].posicion = Vec(400, 150)
    /\ jugador.proyectiles = << >> /\ jugador.ultimo_disparo = 0

\* the point lies strictly outside the screen widened by radio on every side
FueraDePantalla(pos, radio) ==
    \/ pos.x < -radio \/ pos.x > Ancho + radio
    \/ pos.y < -radio \/ pos.y > Alto + radio

Enesimo(S, k) == CHOOSE i \in S : Cardinality({j \in S : j < i}) = k - 1

\* C32: Jugador.actualizar(dt), dt > 0, on an active player leaves in the
\* list exactly the projectiles that are active after one update of dt
\* each, in the order they had; every projectile of the list is active
\* afterwards.
C32_ListaTrasActualizar ==
    [][(ult'.op = "jugador_actualizar" /\ ult'.dt > 0 /\ jugador.activo) =>
        LET ps == jugador.proyectiles
            qs == jugador'.proyectiles
            movidos == [i \in 1..Len(ps) |-> ProyectilActualizar(ps[i], ult'.dt)]
            quedan == {i \in 1..Len(ps) : movidos[i].activo}
        IN  /\ \A k \in 1..Len(qs) : qs[k].activo
            /\ Len(qs) = Cardinality(quedan)
            /\ \A k \in 1..Len(qs) : qs[k] = movidos[Enesimo(quedan, k)]
            /\ \A i \in 1..Len(ps) :
                   ps[i].activo => movidos[i].tiempo_vida = ps[i].tiempo_vida - ult'.dt]_vars

\* C32 witness: an update of the player of 0.5 s, the only one since the
\* last shot (ultimo_disparo is 0.5 s), has left two active projectiles, the
\* older one first.  The last of them has a whole number of seconds of
\* updates, so it has run two updates of the player and is not the
\* projectile of the last shot: that one, last of the list before the call,
\* was taken out by it.
C32_Testigo ==
    /\ ult.op = "jugador_actualizar" /\ ult.dt = 5
    /\ jugador.ultimo_disparo = 5
    /\ Len(jugador.proyectiles) = 2
    /\ jugador.proyectiles[1].activo /\ jugador.proyectiles[2].activo
    /\ jugador.proyectiles[1].edad > jugador.proyectiles[2].edad
    /\ jugador.proyectiles[2].edad = 10


\* the worlds of one running frame up to the purge of line 189, sp being the
\* outcome drawn if the primary enemy has to be replaced
Etapas(dt, sp) ==
    LET m1 == AvanzarCooldown(Mundo, dt)
        m2 == ActualizarEnemigos(m1, dt, jugador)
        m3 == VerificarColisionesProyectiles(m2, 1)
        m4 == ColisionesProyectilesEnemigos(m3, 1, 1)
        m5 == VerificarColisionJugadorEnemigo(m4, jugador)
        m6 == ColisionesJugadorEnemigos(m5, jugador, 1)
        m7 == RespawnSiCaido(m6, sp)
        m8 == VerificarFin(m7)
    IN  <<Mundo, m1, m2, m3, m4, m5, m6, m7, m8>>

\* the enemy d is defeated, and is as the defeated enemy e was
SigueDerrotado(e, d) ==
    ~d.activo /\ d.vida = e.vida /\ d.posicion = e.posicion

\* C33: an enemy that is inactive stays inactive with the same vida and the
\* same position through every Enemigo.actualizar, every Enemigo.recibir_dano
\* and every statement of ControlJuego.actualizar, and recibir_dano on it
\* returns False.
C33_DerrotadoTerminal ==
    [][/\ \A id \in DOMAIN ents :
            ~ents[id].activo =>
                /\ id \in DOMAIN ents' => SigueDerrotado(ents[id], ents'[id])
                /\ ~RecibirDano(ents[id]).ok
                /\ (ult'.op = "recibir_dano" /\ id = enemigo) => ~ult'.resultado
       /\ (ult'.op = "actualizar" /\ ult'.corria) =>
            \A sp \in SpawnsPosibles :
                \E ms \in {Etapas(ult'.dt, sp)} :
                    \A k \in 1..(Len(ms) - 1) :
                        \A id \in DOMAIN ms[k].ents :
                            ~ms[k].ents[id].activo =>
                                SigueDerrotado(ms[k].ents[id], ms[k + 1].ents[id])]_vars

\* C33 witness: recibir_dano has been called on a defeated enemy and has
\* returned False, leaving it with no vida.  The enemy is the second of the
\* session: a frame started with the first one defeated in the list,
\* replaced it and took it out.
C33_Testigo ==
    /\ ult.op = "recibir_dano" /\ ~ult.resultado
    /\ enemigo = 2 /\ enemigos = <<2>>
    /\ ~ents[2].activo /\ ents[2].vida = 0


\* the figure f lies whole inside the screen
EnPantalla(f) ==
    /\ f.radio <= f.posicion.x /\ f.posicion.x <= Ancho - f.radio
    /\ f.radio <= f.posicion.y /\ f.posicion.y <= Alto - f.radio

\* C34: after Jugador.actualizar on the active player and after
\* Enemigo.actualizar on an active enemy the figure lies whole inside the
\* screen, and so does every enemy of the list at the end of a frame of a
\* running session, the newly created ones included.
C34_DentroDePantalla ==
    /\ (ult.op = "jugador_actualizar" /\ jugador.activo) => EnPantalla(jugador)
    /\ (ult.op = "enemigo_actualizar" /\ ents[enemigo].activo) =>
           EnPantalla(ents[enemigo])
    /\ (ult.op = "actualizar" /\ ult.corria) =>
           /\ \A id \in Rango(enemigos) : EnPantalla(ents[id])
           /\ \A k \in 1..Len(ult.nacidos) :
                  /\ ult.nacidos[k] \in Rango(enemigos)
                  /\ ents[ult.nacidos[k]].radio <= 30

\* C34 witness: a frame has ended with the player at rest in the top right
\* corner, an enemy created by the frame in the list, and another enemy
\* held at the top limit of the screen, where its chase of the player would
\* have carried it past.
C34_Testigo ==
    /\ ult.op = "actualizar" /\ ult.corria
    /\ JugadorEnEsquina
    /\ ult.nacidos # << >>
    /\ \E id \in Rango(enemigos) :
           /\ ents[id].activo
           /\ ents[id].posicion.y = ents[id].radio
           /\ ents[id].radio > RadioJugador


\* C35: at the end of every frame of a session that was running when the
\* frame started, self.enemigo is an active enemy and a member of
\* self.enemigos; the list is never empty.
C35_PrimarioActivoEnLista ==
    /\ (ult.op = "actualizar" /\ ult.corria) =>
           /\ ents[enemigo].activo
           /\ enemigo \in Rango(enemigos)
    /\ enemigos # << >>

\* C35 witness: a frame in which the primary enemy fell has ended with the
\* fallen enemy out of the list and its replacement, active, as the primary
\* enemy and the last of the list.
C35_Testigo ==
    /\ ult.op = "actualizar" /\ ult.corria
    /\ ult.heridos # << >> /\ ult.purgados # {}
    /\ ult.nacidos = <<enemigo>>
    /\ ents[enemigo].activo
    /\ enemigos[Len(enemigos)] = enemigo


C38_InactivoSoloPorDano ==
    [][/\ \A id \in DOMAIN ents' : ~ents'[id].activo => ents'[id].vida = 0
       /\ IF ult'.op = "actualizar" /\ ult'.corria
          THEN \E m2 \in {MundoEnColision(ult'.dt)} :
               \E m3 \in {VerificarColisionesProyectiles(m2, 1)} :
               \E m4 \in {ColisionesProyectilesEnemigos(m3, 1, 1)} :
                   /\ \A id \in DOMAIN ents :
                          /\ m2.ents[id].activo = ents[id].activo
                          /\ ~m3.ents[id].activo => m3.ents[id].vida = 0
                          /\ ~m4.ents[id].activo =>
                                 /\ m4.ents[id].vida = 0
                                 /\ ents[id].activo => id \in Rango(ult'.heridos)
                          /\ id \in DOMAIN ents' => ents'[id] = m4.ents[id]
                          /\ id \in ult'.purgados <=>
                                 (id \in Rango(enemigos) /\ ~m4.ents[id].activo)
                   /\ \A id \in DOMAIN ents' \ DOMAIN ents :
                          ents'[id].activo /\ ents'[id].vida = VidaMaxima
          ELSE ents' = ents]_vars

\* C38 witness: a frame has taken out of the list an enemy that was not the
\* primary one (the frame created no enemy), after a recibir_dano of the
\* frame on it returned True.
C38_Testigo ==
    /\ ult.op = "actualizar" /\ ult.corria
    /\ ult.nacidos = << >>
    /\ \E id \in ult.purgados : id \in Rango(ult.heridos)

=============================================================================
